---- MODULE Spec2Model ----
(***************************************************************************)
(* go-mockhttp: the file based resolver (LoadDefinition, Resolve), the     *)
(* path matcher of package pathregex and Client.Do.                        *)
(*                                                                         *)
(* A path is the sequence of its elements: the text between the slashes    *)
(* that follow the leading one, so "/v1/a" is <<"v1","a">>, "/v1/a/" is    *)
(* <<"v1","a","">>, "/" is <<"">> and the empty path is <<>>.              *)
(***************************************************************************)
EXTENDS Integers, Sequences, FiniteSets, TLC

VARIABLES dir, definitions, isLoaded, escaped, loads, lastLoad, last,
          pc, idx, snap, stream, probe, calls, templateText

vars == <<dir, definitions, isLoaded, escaped, loads, lastLoad, last,
          pc, idx, snap, stream, probe, calls, templateText>>

(* ------------------------------ bounds -------------------------------- *)

MaxFiles == 2

MaxResponses == 2

MaxLoads == 2
(* the longest body given to a reusableReader, the largest buffer handed *)
(* to its Read, and the number of times it is read to its end            *)
MaxData == 3
MaxBuf == 2
MaxFulls == 3
(* the longest pattern and the longest path given to MatchPath, in elements *)
MaxPattern == 3
MaxPath == 3
(* the longest text given to CleanPath, in bytes *)
MaxText == 5

(* --------------------------- small helpers ---------------------------- *)

Nil == "<nil>"

EmptyMap == [k \in {} |-> ""]

Get(m, k) == IF k \in DOMAIN m THEN m[k] ELSE ""

Last(s) == s[Len(s)]

Front(s) == SubSeq(s, 1, Len(s) - 1)

RECURSIVE Join(_)
Join(elems) ==
  IF elems = <<>> THEN ""
  ELSE IF Len(elems) = 1 THEN elems[1]
  ELSE elems[1] \o "/" \o Join(Tail(elems))

RECURSIVE SeqsUpTo(_, _)
SeqsUpTo(S, n) ==
  IF n = 0 THEN {<<>>}
  ELSE LET shorter == SeqsUpTo(S, n - 1)
       IN  shorter \cup {Append(s, x) : s \in {t \in shorter : Len(t) = n - 1}, x \in S}

Distinct(s) == \A i, j \in DOMAIN s : i # j => s[i] # s[j]

(* ------------------------- pathregex.CleanPath ------------------------ *)

RECURSIVE CleanStack(_, _)
CleanStack(elems, stack) ==
  IF elems = <<>> THEN stack
  ELSE LET e == Head(elems)
       IN  IF e = "" \/ e = "." THEN CleanStack(Tail(elems), stack)
           ELSE IF e = ".."
                THEN CleanStack(Tail(elems),
                                IF stack = <<>> THEN stack ELSE Front(stack))
                ELSE CleanStack(Tail(elems), Append(stack, e))

CleanPath(p) ==
  IF p = <<>> THEN <<"">>
  ELSE LET trailing == (Len(p) >= 2 /\ Last(p) = "") \/ Last(p) = "."
           stack    == CleanStack(p, <<>>)
       IN  IF stack = <<>> THEN <<"">>
           ELSE IF trailing THEN Append(stack, "") ELSE stack

(* CleanPath byte by byte. p: the text, a sequence of bytes; r: the next   *)
(* byte to read; out: the bytes written so far, buf[:w] (or p[:w] while    *)
(* the buffer is not allocated: bufApp allocates it at the first byte that *)
(* differs from p, so both hold the same bytes)                            *)
Chars == {"/", ".", "a"}

(* the trailing slash appended whatever was written *)
FinishUnguarded(out, trailing) == IF trailing THEN Append(out, "/") ELSE out

Finish(out, trailing) ==
  IF trailing /\ Len(out) > 1 THEN Append(out, "/") ELSE out

(* for w > 1 && buf[w] != '/' { w-- } *)
RECURSIVE BackTo(_, _)
BackTo(out, w) ==
  IF w > 1 /\ out[w + 1] # "/" THEN BackTo(out, w - 1) ELSE SubSeq(out, 1, w)

Backtrack(out) == IF Len(out) > 1 THEN BackTo(out, Len(out) - 1) ELSE out

(* for r < n && p[r] != '/' { r++ } *)
RECURSIVE ElemEnd(_, _)
ElemEnd(p, r) == IF r <= Len(p) /\ p[r] # "/" THEN ElemEnd(p, r + 1) ELSE r

CopyElem(p, r, out) ==
  (IF Len(out) > 1 THEN Append(out, "/") ELSE out) \o SubSeq(p, r, ElemEnd(p, r) - 1)

RECURSIVE CleanLoop(_, _, _, _)
CleanLoop(p, r, out, trailing) ==
  IF r > Len(p) THEN Finish(out, trailing)
  ELSE IF p[r] = "/" THEN CleanLoop(p, r + 1, out, trailing)
  ELSE IF p[r] = "." /\ r = Len(p) THEN CleanLoop(p, r + 1, out, TRUE)
  ELSE IF p[r] = "." /\ p[r + 1] = "/" THEN CleanLoop(p, r + 2, out, trailing)
  ELSE IF p[r] = "." /\ p[r + 1] = "." /\ (r + 1 = Len(p) \/ p[r + 2] = "/")
       THEN CleanLoop(p, r + 3, Backtrack(out), trailing)
  ELSE CleanLoop(p, ElemEnd(p, r), CopyElem(p, r, out), trailing)

CleanPathBytes(p) ==
  IF p = <<>> THEN <<"/">>
  ELSE CleanLoop(p, IF p[1] = "/" THEN 2 ELSE 1, <<"/">>,
                 Len(p) > 1 /\ p[Len(p)] = "/")

(* ------------------------ pathregex.CompilePath ----------------------- *)

ParamNameOf == [e \in {":id", ":tool"} |-> IF e = ":id" THEN "id" ELSE "tool"]

IsParam(e) == e \in DOMAIN ParamNameOf

RECURSIVE StripSlashes(_)
StripSlashes(p) ==
  IF p # <<>> /\ Last(p) = "" THEN StripSlashes(Front(p)) ELSE p

(* a final *name element taken for a wildcard too *)
HasStarSuffixNamed(p) == p # <<>> /\ Last(p) \in {"*", "*filepath"}

HasStarSuffix(p) == p # <<>> /\ Last(p) = "*"

RootStar(p) == p = <<"*">>

ParamNames(named) == [i \in DOMAIN named |-> ParamNameOf[named[i]]]

Compile(p, literal) ==
  [elems  |-> literal,
   params |-> IF HasStarSuffix(p)
              THEN Append(ParamNames(SelectSeq(literal, IsParam)), "*")
              ELSE ParamNames(SelectSeq(literal, IsParam)),
   star   |-> HasStarSuffix(p),
   root   |-> RootStar(p)]

(* elems: the literal and :name elements the pattern starts with; params:  *)
(* the names in order, "*" last; star, root: which tail the pattern gets   *)
CompilePath(p) == Compile(p, StripSlashes(IF HasStarSuffix(p) THEN Front(p) ELSE p))

(* -------------------------- pathregex.MatchPath ----------------------- *)

(* a :name that also matches an empty element *)
ElemMatchesEmpty(pat, e) == IF IsParam(pat) THEN TRUE ELSE pat = e

(* a "*" element that matches any element wherever it stands *)
ElemMatchesStar(pat, e) ==
  IF IsParam(pat) THEN e # "" ELSE IF pat = "*" THEN TRUE ELSE pat = e

ElemMatches(pat, e) == IF IsParam(pat) THEN e # "" ELSE pat = e

PrefixMatches(elems, path) ==
  /\ Len(path) >= Len(elems)
  /\ \A i \in DOMAIN elems : ElemMatches(elems[i], path[i])

(* what follows the first n elements, the separator before it kept *)
RestWithSeparator(path, n) == <<"">> \o SubSeq(path, n + 1, Len(path))

Rest(path, n) == SubSeq(path, n + 1, Len(path))

RegexMatches(c, path) ==
  IF c.root THEN TRUE
  ELSE IF c.star
       THEN PrefixMatches(c.elems, path)
       ELSE /\ PrefixMatches(c.elems, path)
            /\ StripSlashes(Rest(path, Len(c.elems))) = <<>>

(* the last position of the pattern that declares the name n *)
LastNamed(elems, n) ==
  CHOOSE j \in DOMAIN elems :
    /\ IsParam(elems[j]) /\ ParamNameOf[elems[j]] = n
    /\ \A k \in DOMAIN elems :
          IsParam(elems[k]) /\ ParamNameOf[elems[k]] = n => k <= j

Captures(c, path) ==
  [n \in {c.params[i] : i \in DOMAIN c.params} |->
     IF n = "*"
     THEN IF c.root THEN Join(path) ELSE Join(Rest(path, Len(c.elems)))
     ELSE path[LastNamed(c.elems, n)]]

Match(c, path) ==
  IF ~RegexMatches(c, path) THEN [ok |-> FALSE, params |-> EmptyMap]
  ELSE IF c.params = <<>> THEN [ok |-> TRUE, params |-> EmptyMap]
  ELSE [ok |-> TRUE, params |-> Captures(c, path)]

MatchPath(path, pattern) == Match(CompilePath(CleanPath(pattern)), path)

(* ------------------- one call of a path function --------------------- *)

PatternElems == {"cmd", ":tool", ":id", "*", "*filepath"}

PathElems == {"cmd", "test", "*", "*filepath", ""}

(* one call: the pattern and the path given, the names CompilePath gives *)
(* for the pattern and what MatchPath returns; for a call of CleanPath,  *)
(* the text given and the text returned                                  *)
Probe(op, pattern, path, names, match) ==
  [op |-> op, pattern |-> pattern, path |-> path, names |-> names,
   ok |-> match.ok, params |-> match.params, text |-> <<>>, clean |-> <<>>]

NoMatch == [ok |-> FALSE, params |-> EmptyMap]

NoProbe == Probe("none", <<>>, <<>>, <<>>, NoMatch)

(* the calls not made yet *)
MatchInputs ==
  {Probe("match", pattern, path, <<>>, NoMatch) :
     pattern \in SeqsUpTo(PatternElems, MaxPattern),
     path \in SeqsUpTo(PathElems, MaxPath)}

CleanInputs ==
  {[NoProbe EXCEPT !.op = "clean", !.text = t] : t \in SeqsUpTo(Chars, MaxText)}

(* ----------------------------- data model ----------------------------- *)

(* model.go: mockResponse *)
Response(rules, status, tmpl, body) ==
  [ResponseHeaders |-> EmptyMap, Rules |-> rules, Delay |-> 0,
   StatusCode |-> status, EnableTemplate |-> tmpl, Body |-> body]

ZeroResponse == Response(<<>>, 0, FALSE, "")

isNil(r) == r.StatusCode = 0 /\ r.Body = "" /\ Len(r.Rules) = 0

isDefault(r) == Len(r.Rules) = 0

RuleTrue == "true"
RuleNumber == "1 + 1"
RuleSyntax == "body.name =="
RuleMissing == "nosuch.field == 1"
RuleWilliam == "body.name == \"William\""
RuleIdA == "routeParams.id == \"a\""

TmplId == "id={{.id}}"
TmplUnparsable == "{{"
TmplNoSuch == "{{template \"x\"}}"
TmplKeys == "{{.id}},{{.x}},{{.y}},{{.z}}"

RespDefault == Response(<<>>, 200, FALSE, "ok")
RespEmptyDefault == Response(<<>>, 0, FALSE, "")
RespWilliam == Response(<<RuleTrue, RuleWilliam>>, 488, FALSE, "William")
RespNumber == Response(<<RuleNumber>>, 202, FALSE, "number")
RespBadRules == Response(<<RuleSyntax, RuleMissing>>, 203, FALSE, "unreachable")
RespTmplA == Response(<<RuleIdA>>, 200, TRUE, TmplId)
RespTmplDefault == Response(<<>>, 200, TRUE, TmplId)
RespTmplUnparsable == Response(<<>>, 200, TRUE, TmplUnparsable)
RespTmplNoSuch == Response(<<>>, 200, TRUE, TmplNoSuch)
RespTmplKeys == Response(<<>>, 200, TRUE, TmplKeys)
(* delay: 1000, as in the README's example *)
RespDelayed == [RespDefault EXCEPT !.Delay = 1000]

ResponsePool == {RespDefault, RespEmptyDefault, RespWilliam, RespNumber}

(* response lists beyond those drawn from the pool *)
ResponseLists ==
  {<<RespBadRules, RespDefault>>, <<RespBadRules, RespEmptyDefault>>,
   <<RespTmplA, RespDefault>>, <<RespNumber, RespTmplA>>}

(* model.go: fileBasedMockDefinition, as decoded from one yaml file *)
Definition(host, method, path, responses) ==
  [Host |-> host, Path |-> path, Method |-> method, Responses |-> responses]

PathExact == <<"v1", "a">>
PathParam == <<"v1", ":id">>
PathWildcard == <<"v1", "*">>
PathDotDot == <<"v1", ":id", "..", "a">>
PathKeys == <<"v2", ":id">>

DefExact == Definition("h1", "GET", PathExact, <<RespDefault>>)
DefParam == Definition("h1", "GET", PathParam, <<RespTmplDefault>>)
DefWildcard == Definition("h1", "GET", PathWildcard, <<RespWilliam, RespTmplUnparsable>>)
DefDotDot == Definition("h1", "GET", PathDotDot, <<RespTmplNoSuch>>)

DefDelete == Definition("h1", "DELETE", PathExact, <<RespDefault>>)

DefKeys == Definition("h1", "GET", PathKeys, <<RespTmplKeys>>)

DefDelayed == Definition("h1", "GET", PathExact, <<RespDelayed>>)

(* definitions that yield no response, or fail validation, for a request *)
(* a later definition matches too                                        *)
DefExactRuled == Definition("h1", "GET", PathExact, <<RespWilliam>>)
DefPostParam == Definition("h1", "POST", PathParam, <<RespDefault>>)
DefPostWildcard == Definition("h1", "POST", PathWildcard, <<RespDefault>>)

TierDefinitions == {DefExact, DefParam, DefWildcard}

SelDefinitions ==
  {Definition("h1", "POST", PathParam, rs) :
     rs \in SeqsUpTo(ResponsePool, MaxResponses) \cup ResponseLists}

(* one entry of the directory: a sub-directory, a file that cannot be read, *)
(* a file that is no yaml mapping, or the yaml of one definition            *)
FileDir == [kind |-> "dir", def |-> Definition("", "", <<>>, <<>>)]
FileUnreadable == [kind |-> "unreadable", def |-> Definition("", "", <<>>, <<>>)]
FileBadYaml == [kind |-> "badyaml", def |-> Definition("", "", <<>>, <<>>)]
FileOf(d) == [kind |-> "def", def |-> d]

TierFiles == {FileBadYaml} \cup {FileOf(d) : d \in TierDefinitions}

(* directory listings beyond those drawn from TierFiles *)
FileLists ==
  {<<FileUnreadable>>, <<FileOf(DefExact), FileUnreadable>>,
   <<FileDir, FileOf(DefExact)>>, <<FileOf(DefDotDot)>>,
   <<FileOf(DefDotDot), FileOf(DefExact)>>, <<FileOf(DefDelete)>>,
   <<FileOf(DefKeys)>>, <<FileOf(DefDelayed)>>,
   <<FileOf(DefParam), FileOf(DefExactRuled)>>,
   <<FileOf(DefExactRuled), FileOf(DefExact)>>,
   <<FileOf(DefPostParam), FileOf(DefPostWildcard)>>}

TierDirectories ==
  {[ok |-> FALSE, files |-> <<>>]}
  \cup {[ok |-> TRUE, files |-> fs] :
          fs \in {s \in SeqsUpTo(TierFiles, MaxFiles) : Distinct(s)} \cup FileLists}

Directories ==
  TierDirectories \cup {[ok |-> TRUE, files |-> <<FileOf(d)>>] : d \in SelDefinitions}

(* ------------------------ LoadDefinition, per file -------------------- *)

findWildcard(params) == \E i \in DOMAIN params : params[i] = "*"

(* containParams counting the :name parameters only, not the "*" *)
WithDeferredNamedOnly(d, c) ==
  [Host |-> d.Host, Path |-> d.Path, Method |-> d.Method,
   Responses |-> d.Responses,
   compiledPath |-> c.elems,
   params |-> c.params,
   containParams |-> \E i \in DOMAIN c.params : c.params[i] # "*",
   containsWildcard |-> findWildcard(c.params)]

(* the deferred fields LoadDefinition computes from the decoded Path *)
WithDeferred(d, c) ==
  [Host |-> d.Host, Path |-> d.Path, Method |-> d.Method,
   Responses |-> d.Responses,
   compiledPath |-> c.elems,
   params |-> c.params,
   containParams |-> Len(c.params) > 0,
   containsWildcard |-> findWildcard(c.params)]

Compiled(d) == WithDeferred(d, CompilePath(d.Path))

(* the loop of LoadDefinition from file i on, run by one caller alone *)
RECURSIVE LoadFiles(_, _, _)
LoadFiles(defs, files, i) ==
  IF i > Len(files) THEN [defs |-> defs, err |-> Nil]
  ELSE IF files[i].kind = "dir" THEN LoadFiles(defs, files, i + 1)
  ELSE IF files[i].kind = "unreadable" THEN [defs |-> defs, err |-> "ErrReadFile"]
  ELSE IF files[i].kind = "badyaml" THEN [defs |-> defs, err |-> "ErrYaml"]
  ELSE LoadFiles(Append(defs, Compiled(files[i].def)), files, i + 1)

(* ----------------------- the three tiers of Resolve ------------------- *)

getAllExactPathDefinitions(defs, host, method) ==
  SelectSeq([i \in DOMAIN defs |-> i],
            LAMBDA i : /\ defs[i].Method = method
                       /\ defs[i].Host = host
                       /\ ~defs[i].containParams
                       /\ ~defs[i].containsWildcard)

(* the parameter store keyed by the host too *)
getAllContainPathParamDefinitionsByHost(defs, host, method) ==
  SelectSeq([i \in DOMAIN defs |-> i],
            LAMBDA i : /\ defs[i].Method = method
                       /\ defs[i].Host = host
                       /\ defs[i].containParams
                       /\ ~defs[i].containsWildcard)

getAllContainPathParamDefinitions(defs, host, method) ==
  SelectSeq([i \in DOMAIN defs |-> i],
            LAMBDA i : /\ defs[i].Method = method
                       /\ defs[i].containParams
                       /\ ~defs[i].containsWildcard)

getAllHaveWildcardDefinitions(defs, host, method) ==
  SelectSeq([i \in DOMAIN defs |-> i],
            LAMBDA i : /\ defs[i].Method = method
                       /\ defs[i].Host = host
                       /\ defs[i].containParams
                       /\ defs[i].containsWildcard)

(* the stores handed over from the most general to the most specific *)
TierOrderWildcardFirst == <<"wildcard", "param", "exact">>

(* the order in which Resolve hands the stores to findMockResponse *)
TierOrder == <<"exact", "param", "wildcard">>

Store(tier, defs, host, method) ==
  IF tier = "exact" THEN getAllExactPathDefinitions(defs, host, method)
  ELSE IF tier = "param" THEN getAllContainPathParamDefinitions(defs, host, method)
  ELSE getAllHaveWildcardDefinitions(defs, host, method)

(* ----------------------------- reusableReader ------------------------- *)

Min(a, b) == IF a < b THEN a ELSE b

Bytes == {"a", "b"}

(* ReusableReader(r): r is drained into readBuf, backBuf is empty; acc is *)
(* what the Read calls have returned since the last io.EOF, full what     *)
(* they had returned when the last io.EOF came, fulls the number of EOFs  *)
Stream(data) ==
  [data |-> data, readBuf |-> data, backBuf |-> <<>>,
   acc |-> <<>>, full |-> <<>>, fulls |-> 0]

NoStream == Stream(<<>>)

(* bytes.Buffer.Read(p) with len(p) = n: io.EOF only from an empty buffer *)
(* asked for at least one byte                                            *)
BufferEOF(buf, n) == buf = <<>> /\ n > 0

BufferGot(buf, n) == SubSeq(buf, 1, Min(n, Len(buf)))

BufferRest(buf, n) == SubSeq(buf, Min(n, Len(buf)) + 1, Len(buf))

(* a reset that copies nothing back *)
resetNothing(r) == r

(* reset: io.Copy(r.readBuf, r.backBuf) moves all of backBuf behind what *)
(* readBuf holds and leaves backBuf empty                                *)
reset(r) == [r EXCEPT !.readBuf = r.readBuf \o r.backBuf, !.backBuf = <<>>]

(* the TeeReader: what comes out of readBuf is also written to backBuf *)
TeeRead(r, n) ==
  [r EXCEPT !.readBuf = BufferRest(r.readBuf, n),
            !.backBuf = r.backBuf \o BufferGot(r.readBuf, n),
            !.acc = r.acc \o BufferGot(r.readBuf, n)]

AtEOF(r) == [r EXCEPT !.acc = <<>>, !.full = r.acc, !.fulls = r.fulls + 1]

(* reusableReader.Read(p) with len(p) = n *)
ReaderRead(r, n) ==
  IF BufferEOF(r.readBuf, n) THEN AtEOF(reset(r)) ELSE TeeRead(r, n)

(* ------------------------- request normalisation ---------------------- *)

DataWilliam == "{\"name\":\"William\"}"
DataBob == "{\"name\":\"Bob\"}"
DataXml == "<name>William</name>"

parsedXMLBodyMimeTypes == {"application/xml", "application/soap+xml", "text/xml"}
parsedFormBodyMimeTypes == {"application/x-www-form-urlencoded", "multipart/form-data"}
parsedJSONBodyMimeTypes == {"application/json"}
parsedBodyMimeTypes ==
  parsedXMLBodyMimeTypes \cup parsedJSONBodyMimeTypes \cup parsedFormBodyMimeTypes

(* io.ReadAll(req.Body), the nth time within one call: the replaying reader *)
(* of FromRequest starts over, a bytes.Reader stays at its end              *)
ReadAll(req, nth) ==
  IF req.reader = "reusable" \/ nth = 1 THEN req.data ELSE ""

ParseJSON(text) ==
  IF text = DataWilliam THEN [err |-> Nil, body |-> [name |-> "William"]]
  ELSE IF text = DataBob THEN [err |-> Nil, body |-> [name |-> "Bob"]]
  ELSE [err |-> "ErrJSON", body |-> EmptyMap]

ParseXML(text) ==
  IF text = DataXml THEN [err |-> Nil, body |-> [name |-> "William"]]
  ELSE [err |-> "ErrXML", body |-> EmptyMap]

(* req.ParseForm(): the query string, and the body of a form post *)
FormOf(query, text) ==
  [err |-> Nil,
   body |-> IF text = "" THEN query
            ELSE [k \in DOMAIN query \cup {text} |-> IF k = text THEN "" ELSE query[k]]]

extractFormReqBody(req, nth) ==
  FormOf(req.Query,
         IF req.Method \in {"POST", "PUT", "PATCH"}
            /\ Get(req.Header, "Content-Type") = "application/x-www-form-urlencoded"
         THEN ReadAll(req, nth) ELSE "")

extractReqBody(req, headers) ==
  IF "Content-Type" \notin DOMAIN headers
  THEN [err |-> "ErrUnsupportedContentType", body |-> EmptyMap]
  ELSE IF headers["Content-Type"] \in parsedFormBodyMimeTypes
       THEN extractFormReqBody(req, 2)
  ELSE IF headers["Content-Type"] \in parsedJSONBodyMimeTypes
       THEN ParseJSON(ReadAll(req, 2))
  ELSE IF headers["Content-Type"] \in parsedXMLBodyMimeTypes
       THEN ParseXML(ReadAll(req, 2))
  ELSE [err |-> "ErrUnsupportedContentType", body |-> EmptyMap]

(* model.go: incomingRequest, as Resolve builds it *)
Incoming(req, body, rawBody) ==
  [Host |-> req.Host, Method |-> req.Method, Endpoint |-> CleanPath(req.Path),
   Headers |-> req.Header, Cookies |-> req.Cookies, QueryParams |-> req.Query,
   RouteParams |-> EmptyMap, Body |-> body, RawBody |-> rawBody]

(* ----------------------------- rule evaluation ------------------------ *)

(* expr.Eval(rule, env): a compile or run-time error, or a value that is a *)
(* bool or something else                                                  *)
ExprEval(rule, request) ==
  IF rule = RuleTrue THEN [err |-> FALSE, isBool |-> TRUE, val |-> TRUE]
  ELSE IF rule = RuleWilliam
       THEN [err |-> FALSE, isBool |-> TRUE,
             val |-> "name" \in DOMAIN request.Body /\ request.Body["name"] = "William"]
  ELSE IF rule = RuleIdA
       THEN [err |-> FALSE, isBool |-> TRUE,
             val |-> "id" \in DOMAIN request.RouteParams /\ request.RouteParams["id"] = "a"]
  ELSE IF rule = RuleNumber THEN [err |-> FALSE, isBool |-> FALSE, val |-> FALSE]
  ELSE [err |-> TRUE, isBool |-> FALSE, val |-> FALSE]

(* "true", "false", or "panic" for the failed type assertion evalRes.(bool) *)
Fulfilled(e) ==
  IF e.err THEN "false"
  ELSE IF ~e.isBool THEN "panic"
  ELSE IF e.val THEN "true" ELSE "false"

isRuleFulfilled(request, rule) == Fulfilled(ExprEval(rule, request))

(* collection all(rules, isRuleFulfilled): stops at the first rule that fails *)
AndThen(first, rest) == IF first = "true" THEN rest ELSE first

RECURSIVE all(_, _)
all(request, rules) ==
  IF rules = <<>> THEN "true"
  ELSE AndThen(isRuleFulfilled(request, Head(rules)), all(request, Tail(rules)))

FoundIf(satisfied, i, rest) ==
  IF satisfied = "panic" THEN -1 ELSE IF satisfied = "true" THEN i ELSE rest

(* findFirst over the responses from position i on: the position found, 0 *)
(* for "no match found", -1 when a rule panicked on the way               *)
RECURSIVE findFirstSatisfied(_, _, _)
findFirstSatisfied(request, responses, i) ==
  IF i > Len(responses) THEN 0
  ELSE IF isDefault(responses[i]) THEN findFirstSatisfied(request, responses, i + 1)
  ELSE FoundIf(all(request, responses[i].Rules), i,
               findFirstSatisfied(request, responses, i + 1))

RECURSIVE findFirstDefault(_, _)
findFirstDefault(responses, i) ==
  IF i > Len(responses) THEN 0
  ELSE IF isDefault(responses[i]) THEN i
  ELSE findFirstDefault(responses, i + 1)

At(responses, i) == IF i = 0 THEN ZeroResponse ELSE responses[i]

(* c: what the first findFirst found, d: what the second found *)
Choose(responses, c, d) ==
  IF c = -1 THEN [panic |-> TRUE, chosen |-> 0]
  ELSE IF ~isNil(At(responses, c)) THEN [panic |-> FALSE, chosen |-> c]
  ELSE IF ~isNil(At(responses, d)) THEN [panic |-> FALSE, chosen |-> d]
  ELSE [panic |-> FALSE, chosen |-> 0]

(* the position of the chosen response in policy.Responses, 0 for nil *)
chooseResponse(request, policy) ==
  Choose(policy.Responses,
         findFirstSatisfied(request, policy.Responses, 1),
         findFirstDefault(policy.Responses, 1))

(* a validateTarget that lets a request without Content-Type through *)
validateTargetLenient(request) ==
  IF request.Method \in {"GET", "HEAD", "DELETE"} THEN Nil
  ELSE IF "Content-Type" \notin DOMAIN request.Headers THEN Nil
  ELSE IF request.Headers["Content-Type"] \notin parsedBodyMimeTypes
       THEN "ErrUnsupportedContentType"
  ELSE Nil

validateTarget(request) ==
  IF request.Method \in {"GET", "HEAD", "DELETE"} THEN Nil
  ELSE IF "Content-Type" \notin DOMAIN request.Headers THEN "ErrNoContentType"
  ELSE IF request.Headers["Content-Type"] \notin parsedBodyMimeTypes
       THEN "ErrUnsupportedContentType"
  ELSE Nil

Validated(err, c) ==
  IF err # Nil THEN [err |-> err, panic |-> FALSE, chosen |-> 0]
  ELSE [err |-> Nil, panic |-> c.panic, chosen |-> c.chosen]

findResponse(request, selectedPolicy) ==
  Validated(validateTarget(request), chooseResponse(request, selectedPolicy))

(* ---------------------------- findMockResponse ------------------------ *)

(* the first definition of the store, in load order, whose path matches *)
RECURSIVE FirstMatch(_, _, _)
FirstMatch(defs, store, endpoint) ==
  IF store = <<>> THEN 0
  ELSE IF MatchPath(endpoint, defs[Head(store)].Path).ok THEN Head(store)
  ELSE FirstMatch(defs, Tail(store), endpoint)

FirstNonZero(m, rest) == IF m # 0 THEN m ELSE rest

RECURSIVE FirstMatchInTiers(_, _, _)
FirstMatchInTiers(defs, request, tiers) ==
  IF tiers = <<>> THEN 0
  ELSE FirstNonZero(FirstMatch(defs,
                               Store(Head(tiers), defs, request.Host, request.Method),
                               request.Endpoint),
                    FirstMatchInTiers(defs, request, Tail(tiers)))

Found(m, routed, f) ==
  [matched |-> m, request |-> routed, err |-> f.err, panic |-> f.panic,
   chosen |-> f.chosen]

Routed(request, m, match) == [request EXCEPT !.RouteParams = match.params]

Commit(defs, m, routed) == Found(m, routed, findResponse(routed, defs[m]))

(* a lookup with a signal of its own for "no definition matched" *)
FindFromNotFound(defs, request, m) ==
  IF m = 0
  THEN [matched |-> 0, request |-> request, err |-> "ErrNotFound",
        panic |-> FALSE, chosen |-> 0]
  ELSE Commit(defs, m, Routed(request, m, MatchPath(request.Endpoint, defs[m].Path)))

(* m: the position in r.definitions of the definition it commits to *)
FindFrom(defs, request, m) ==
  IF m = 0
  THEN [matched |-> 0, request |-> request, err |-> "ErrNoMockResponse",
        panic |-> FALSE, chosen |-> 0]
  ELSE Commit(defs, m, Routed(request, m, MatchPath(request.Endpoint, defs[m].Path)))

findMockResponse(defs, request, tiers) ==
  FindFrom(defs, request, FirstMatchInTiers(defs, request, tiers))

(* ------------------------------ generateResp -------------------------- *)

(* html/template: whether Parse accepts the text, whether Execute then    *)
(* succeeds, and what it writes                                           *)
TemplateParses(body) == body # TmplUnparsable

TemplateExecutes(body) == body # TmplNoSuch

Render(body, data) ==
  IF body = TmplId THEN "id=" \o Get(data, "id")
  ELSE IF body = TmplKeys
       THEN Get(data, "id") \o "," \o Get(data, "x") \o "," \o Get(data, "y")
            \o "," \o Get(data, "z")
  ELSE body

DetectContentType(body) == "text/plain; charset=utf-8"

Merge(a, b) == [k \in DOMAIN a \cup DOMAIN b |-> IF k \in DOMAIN b THEN b[k] ELSE a[k]]

(* the maps merged the other way round *)
collectAllParamsQueryLast(request) ==
  Merge(Merge(Merge(request.RouteParams, request.Headers), request.Cookies),
        request.QueryParams)

collectAllParams(request) ==
  Merge(Merge(Merge(request.QueryParams, request.Cookies), request.Headers),
        request.RouteParams)

NoResponse == [StatusCode |-> 0, Header |-> EmptyMap, Body |-> ""]

HttpResponse(response, body) ==
  [StatusCode |-> response.StatusCode,
   Header |-> IF "Content-Type" \in DOMAIN response.ResponseHeaders
              THEN response.ResponseHeaders
              ELSE Merge(response.ResponseHeaders,
                         [k \in {"Content-Type"} |-> DetectContentType(body)]),
   Body |-> body]

(* esc: the shared r.template has been executed before (html/template then *)
(* refuses to Parse, and template.Must panics on a refused Parse)          *)
generateResp(esc, request, response) ==
  IF ~response.EnableTemplate
  THEN [kind |-> "resp", err |-> Nil, escaped |-> esc,
        resp |-> HttpResponse(response, response.Body)]
  ELSE IF esc \/ ~TemplateParses(response.Body)
       THEN [kind |-> "panic", err |-> Nil, escaped |-> esc, resp |-> NoResponse]
  ELSE IF ~TemplateExecutes(response.Body)
       THEN [kind |-> "err", err |-> "ErrCommon", escaped |-> TRUE, resp |-> NoResponse]
  ELSE [kind |-> "resp", err |-> Nil, escaped |-> TRUE,
        resp |-> HttpResponse(response, Render(response.Body, collectAllParams(request)))]

(* -------------------------------- Resolve ----------------------------- *)

Outcome(kind, err, esc, resp, matched, chosen) ==
  [kind |-> kind, err |-> err, escaped |-> esc, resp |-> resp,
   matched |-> matched, chosen |-> chosen]

NoOutcome == Outcome("none", Nil, FALSE, NoResponse, 0, 0)

Generated(g, f) == Outcome(g.kind, g.err, g.escaped, g.resp, f.matched, f.chosen)

(* f: what findMockResponse returned *)
ResolveFound(defs, esc, f) ==
  IF f.panic THEN Outcome("panic", Nil, esc, NoResponse, f.matched, 0)
  ELSE IF f.err # Nil THEN Outcome("err", f.err, esc, NoResponse, f.matched, 0)
  ELSE IF f.chosen = 0
       THEN Outcome("err", "ErrNoMockResponse", esc, NoResponse, f.matched, 0)
  ELSE Generated(generateResp(esc, f.request, defs[f.matched].Responses[f.chosen]), f)

(* a Resolve whose lookup walks the tiers the other way round once the *)
(* resolver has executed a template                                    *)
ResolveParsedByHistory(defs, esc, req, parsed) ==
  IF parsed.err # Nil THEN Outcome("err", parsed.err, esc, NoResponse, 0, 0)
  ELSE ResolveFound(defs, esc,
         findMockResponse(defs,
                          Incoming(req, parsed.body,
                                   IF req.reader # "none" THEN ReadAll(req, 1) ELSE ""),
                          IF esc THEN TierOrderWildcardFirst ELSE TierOrder))

(* parsed: what extractReqBody returned, when the request has a body *)
ResolveParsed(defs, esc, req, parsed) ==
  IF parsed.err # Nil THEN Outcome("err", parsed.err, esc, NoResponse, 0, 0)
  ELSE ResolveFound(defs, esc,
         findMockResponse(defs,
                          Incoming(req, parsed.body,
                                   IF req.reader # "none" THEN ReadAll(req, 1) ELSE ""),
                          TierOrder))

Resolve(defs, esc, req) ==
  ResolveParsed(defs, esc, req,
                IF req.reader # "none" THEN extractReqBody(req, req.Header)
                ELSE [err |-> Nil, body |-> EmptyMap])

(* ------------------------------- requests ----------------------------- *)

Request(host, method, path, ctype, reader, data) ==
  [Host |-> host, Method |-> method, Path |-> path,
   Header |-> IF ctype = "" THEN EmptyMap ELSE [k \in {"Content-Type"} |-> ctype],
   Cookies |-> EmptyMap, Query |-> EmptyMap, reader |-> reader, data |-> data]

(* the keys a request may carry in its header, its cookies and its query *)
HeaderKeys == [k \in {"id", "x"} |-> "h"]
CookieKeys == [k \in {"id", "x", "y"} |-> "c"]
QueryKeys == [k \in {"id", "x", "y", "z"} |-> "q"]

(* a GET of /v2/a with these cookies (sent in the Cookie header) and query *)
KeysRequest(header, cookies, query) ==
  [Request("h1", "GET", <<"v2", "a">>, "", "none", "")
     EXCEPT !.Header = IF cookies = EmptyMap THEN header
                       ELSE Merge(header, [k \in {"Cookie"} |-> "id=c; x=c; y=c"]),
            !.Cookies = cookies, !.Query = query]

KeysRequests ==
  {KeysRequest(HeaderKeys, CookieKeys, QueryKeys),
   KeysRequest(EmptyMap, CookieKeys, QueryKeys),
   KeysRequest(EmptyMap, EmptyMap, QueryKeys),
   KeysRequest(HeaderKeys, EmptyMap, EmptyMap)}

RequestPaths ==
  {<<"v1", "a">>, <<"v1", "b">>, <<"v1", ".", "a", "">>, <<"v1", "b", "c">>, <<"v2">>}

ContentTypes ==
  {"", "application/json", "text/plain", "application/x-www-form-urlencoded"}

Requests ==
  {Request("h1", "GET", p, "", "none", "") : p \in RequestPaths}
  \cup {Request("h2", "GET", <<"v1", "a">>, "", "none", ""),
        Request("h1", "GET", <<"v1", "a">>, "", "reusable", DataWilliam),
        Request("h1", "POST", <<"v1", "a">>, "application/json", "failing", DataWilliam),
        Request("h1", "POST", <<"v1", "a">>, "application/json", "reusable", DataBob),
        Request("h1", "POST", <<"v1", "a">>, "application/json", "bytes", DataWilliam),
        Request("h1", "POST", <<"v1", "b">>, "application/json", "reusable", DataWilliam),
        Request("h1", "POST", <<"v1", "a">>, "", "none", ""),
        Request("h1", "DELETE", <<"v1", "a">>, "", "none", ""),
        Request("h1", "DELETE", <<"v1", "a">>, "", "reusable", DataWilliam)}
  \cup {Request("h1", "POST", <<"v1", "a">>, c, "reusable", DataWilliam) : c \in ContentTypes}
  \cup KeysRequests

(* ------------------------------- Client.Do ---------------------------- *)

UpstreamResponse == [StatusCode |-> 204, Header |-> EmptyMap, Body |-> "upstream"]

(* the last call made: the request, what the resolver held when it was made *)
(* (loaded, ndefs), what Resolve did (out), whether the real upstream was    *)
(* called, and what the call returned (ret, resp)                            *)
Call(op, req, loaded, ndefs, out, upstream, ret, resp) ==
  [op |-> op, req |-> req, loaded |-> loaded, ndefs |-> ndefs, out |-> out,
   upstream |-> upstream, ret |-> ret, resp |-> resp, sent |-> ""]

(* c.HTTPClient.Do(req.Request): the upstream reads req.Body, the stream *)
(* Resolve has read before it                                            *)
Sent(call, req) ==
  [call EXCEPT !.sent = IF req.reader = "none" THEN "" ELSE ReadAll(req, 2)]

NoCall == Call("none", Request("", "", <<>>, "", "none", ""), FALSE, 0, NoOutcome,
               FALSE, "none", NoResponse)

(* a Do that falls through to the upstream only on "not found" and hands *)
(* any other Resolve error back to its caller                             *)
DoNotFoundOnly(req, loaded, ndefs, out, up) ==
  IF out.kind = "panic"
  THEN Call("Do", req, loaded, ndefs, out, FALSE, "panic", NoResponse)
  ELSE IF out.kind = "resp"
  THEN Call("Do", req, loaded, ndefs, out, FALSE, "mock", out.resp)
  ELSE IF out.err # "ErrNoMockResponse"
  THEN Call("Do", req, loaded, ndefs, out, FALSE, "resolveErr", NoResponse)
  ELSE IF up = "ok"
  THEN Sent(Call("Do", req, loaded, ndefs, out, TRUE, "upstream", UpstreamResponse), req)
  ELSE Sent(Call("Do", req, loaded, ndefs, out, TRUE, "upstreamErr", NoResponse), req)

(* what Do returns once Resolve has come back with out; up is what the real *)
(* upstream would answer                                                    *)
DoAfterResolve(req, loaded, ndefs, out, up) ==
  IF out.kind = "panic"
  THEN Call("Do", req, loaded, ndefs, out, FALSE, "panic", NoResponse)
  ELSE IF out.kind = "resp"
  THEN Call("Do", req, loaded, ndefs, out, FALSE, "mock", out.resp)
  ELSE IF up = "ok"
  THEN Sent(Call("Do", req, loaded, ndefs, out, TRUE, "upstream", UpstreamResponse), req)
  ELSE Sent(Call("Do", req, loaded, ndefs, out, TRUE, "upstreamErr", NoResponse), req)

(* ------------------------------- actions ------------------------------ *)

Loaders == {1, 2}

(* the callers of Resolve that may run at the same time, each at a place *)
(* of its call: before it, before r.template.Parse, before t.Execute, or *)
(* returned                                                              *)
Callers == {1, 2}

NoCalls == [c \in Callers |-> [pc |-> "idle", req |-> NoCall.req, out |-> NoOutcome]]

InitWith(dirs) ==
  /\ dir \in dirs
  /\ definitions = <<>>
  /\ isLoaded = FALSE
  /\ escaped = FALSE
  /\ loads = 0
  /\ lastLoad = [l \in Loaders |-> "none"]
  /\ last = NoCall
  /\ pc = [l \in Loaders |-> "idle"]
  /\ idx = [l \in Loaders |-> 0]
  /\ snap = [l \in Loaders |-> <<>>]
  /\ stream = NoStream
  /\ probe = NoProbe
  /\ calls = NoCalls
  /\ templateText = ""

Init == InitWith(Directories)

(* a load that keeps what it appended only when every file was loaded *)
LoadedAllOrNothing(run) ==
  /\ definitions' = IF run.err = Nil THEN run.defs ELSE definitions
  /\ isLoaded' = (run.err = Nil)
  /\ lastLoad' = [lastLoad EXCEPT ![1] = run.err]

Loaded(run) ==
  /\ definitions' = run.defs
  /\ isLoaded' = (run.err = Nil)
  /\ lastLoad' = [lastLoad EXCEPT ![1] = run.err]

(* a LoadDefinition without the isLoaded test at its top *)
LoadDefinitionUnguarded ==
  /\ loads < MaxLoads
  /\ loads' = loads + 1
  /\ IF ~dir.ok
     THEN /\ lastLoad' = [lastLoad EXCEPT ![1] = "ErrReadDir"]
          /\ UNCHANGED <<definitions, isLoaded>>
     ELSE Loaded(LoadFiles(definitions, dir.files, 1))
  /\ UNCHANGED <<dir, escaped, last, pc, idx, snap, stream, probe,
                 calls, templateText>>

(* LoadDefinition called and run to its return by one caller *)
LoadDefinition ==
  /\ loads < MaxLoads
  /\ loads' = loads + 1
  /\ IF isLoaded
     THEN /\ lastLoad' = [lastLoad EXCEPT ![1] = "ErrDefinitionLoaded"]
          /\ UNCHANGED <<definitions, isLoaded>>
     ELSE IF ~dir.ok
     THEN /\ lastLoad' = [lastLoad EXCEPT ![1] = "ErrReadDir"]
          /\ UNCHANGED <<definitions, isLoaded>>
     ELSE Loaded(LoadFiles(definitions, dir.files, 1))
  /\ UNCHANGED <<dir, escaped, last, pc, idx, snap, stream, probe,
                 calls, templateText>>

(* a Resolve whose store filters r.definitions in place: the definitions *)
(* the Exact store keeps are moved to the front of the index            *)
ResolvedFilteringInPlace(req, out) ==
  /\ escaped' = out.escaped
  /\ definitions' =
       [i \in DOMAIN definitions |->
          IF i <= Len(Store("exact", definitions, req.Host, req.Method))
          THEN definitions[Store("exact", definitions, req.Host, req.Method)[i]]
          ELSE definitions[i]]
  /\ isLoaded' = isLoaded
  /\ last' = Call("Resolve", req, isLoaded, Len(definitions), out, FALSE,
                  out.kind, out.resp)

(* Resolve called directly on the adapter *)
Resolved(req, out) ==
  /\ escaped' = out.escaped
  /\ UNCHANGED <<definitions, isLoaded>>
  /\ last' = Call("Resolve", req, isLoaded, Len(definitions), out, FALSE,
                  out.kind, out.resp)

Done(req, out) ==
  /\ escaped' = out.escaped
  /\ UNCHANGED <<definitions, isLoaded>>
  /\ IF out.kind \in {"resp", "panic"}
     THEN last' = DoAfterResolve(req, isLoaded, Len(definitions), out, "none")
     ELSE \E up \in {"ok", "fail"} :
            last' = DoAfterResolve(req, isLoaded, Len(definitions), out, up)

ResolveCall ==
  \E req \in Requests :
    /\ req.reader # "failing"
    /\ Resolved(req, Resolve(definitions, escaped, req))
    /\ UNCHANGED <<dir, loads, lastLoad, pc, idx, snap, stream, probe,
                 calls, templateText>>

(* Client.Do: req.body(), Resolve, then the real upstream unless mocked *)
ClientDo ==
  \E req \in Requests :
    /\ IF req.reader = "failing"
       THEN /\ last' = Call("Do", req, isLoaded, Len(definitions), NoOutcome, FALSE,
                            "readErr", NoResponse)
            /\ UNCHANGED <<escaped, definitions, isLoaded>>
       ELSE Done(req, Resolve(definitions, escaped, req))
    /\ UNCHANGED <<dir, loads, lastLoad, pc, idx, snap, stream, probe,
                 calls, templateText>>

Next == LoadDefinition \/ ResolveCall \/ ClientDo

Spec == Init /\ [][Next]_vars

(* --------------- LoadDefinition, callers running concurrently --------- *)

InitConc == InitWith(TierDirectories)

Return(l, err) ==
  /\ lastLoad' = [lastLoad EXCEPT ![l] = err]
  /\ pc' = [pc EXCEPT ![l] = "idle"]

(* the call, the isLoaded.Load() test and os.ReadDir *)
LoadBegin(l) ==
  /\ pc[l] = "idle"
  /\ loads < MaxLoads
  /\ loads' = loads + 1
  /\ IF isLoaded THEN Return(l, "ErrDefinitionLoaded") /\ UNCHANGED idx
     ELSE IF ~dir.ok THEN Return(l, "ErrReadDir") /\ UNCHANGED idx
     ELSE /\ pc' = [pc EXCEPT ![l] = "loop"]
          /\ idx' = [idx EXCEPT ![l] = 1]
          /\ UNCHANGED lastLoad
  /\ UNCHANGED <<dir, definitions, isLoaded, escaped, last, snap, stream, probe,
                 calls, templateText>>

(* one turn of the loop up to the read of r.definitions, or the end of the *)
(* loop with isLoaded.Store(true)                                          *)
LoadFile(l) ==
  /\ pc[l] = "loop"
  /\ IF idx[l] > Len(dir.files)
     THEN /\ isLoaded' = TRUE
          /\ Return(l, Nil)
          /\ UNCHANGED <<idx, snap>>
     ELSE IF dir.files[idx[l]].kind = "dir"
     THEN /\ idx' = [idx EXCEPT ![l] = idx[l] + 1]
          /\ UNCHANGED <<isLoaded, lastLoad, pc, snap>>
     ELSE IF dir.files[idx[l]].kind = "unreadable"
     THEN Return(l, "ErrReadFile") /\ UNCHANGED <<isLoaded, idx, snap>>
     ELSE IF dir.files[idx[l]].kind = "badyaml"
     THEN Return(l, "ErrYaml") /\ UNCHANGED <<isLoaded, idx, snap>>
     ELSE /\ snap' = [snap EXCEPT ![l] = definitions]
          /\ pc' = [pc EXCEPT ![l] = "append"]
          /\ UNCHANGED <<isLoaded, lastLoad, idx>>
  /\ UNCHANGED <<dir, definitions, escaped, loads, last, stream, probe,
                 calls, templateText>>

(* the write of r.definitions = append(what was read, definition) *)
LoadAppend(l) ==
  /\ pc[l] = "append"
  /\ definitions' = Append(snap[l], Compiled(dir.files[idx[l]].def))
  /\ snap' = [snap EXCEPT ![l] = <<>>]
  /\ idx' = [idx EXCEPT ![l] = idx[l] + 1]
  /\ pc' = [pc EXCEPT ![l] = "loop"]
  /\ UNCHANGED <<dir, isLoaded, escaped, loads, lastLoad, last, stream, probe,
                 calls, templateText>>

NextConc == \E l \in Loaders : LoadBegin(l) \/ LoadFile(l) \/ LoadAppend(l)

SpecConc == InitConc /\ [][NextConc]_vars

(* ------------------ Resolve, callers running concurrently ------------- *)

(* the indexes the callers resolve against: loaded, with two definitions *)
(* that render different templates                                       *)
LoadedIndexes ==
  {LoadFiles(<<>>, fs, 1).defs :
     fs \in {<<FileOf(DefParam), FileOf(DefKeys)>>, <<FileOf(DefExact), FileOf(DefParam)>>}}

InitRes ==
  /\ dir = [ok |-> TRUE, files |-> <<>>]
  /\ definitions \in LoadedIndexes
  /\ isLoaded = TRUE
  /\ escaped = FALSE
  /\ loads = 1
  /\ lastLoad = [l \in Loaders |-> "none"]
  /\ last = NoCall
  /\ pc = [l \in Loaders |-> "idle"]
  /\ idx = [l \in Loaders |-> 0]
  /\ snap = [l \in Loaders |-> <<>>]
  /\ stream = NoStream
  /\ probe = NoProbe
  /\ calls = NoCalls
  /\ templateText = ""

(* the call selects a response whose body goes through r.template *)
UsesTemplate(defs, out) ==
  /\ out.chosen # 0
  /\ defs[out.matched].Responses[out.chosen].EnableTemplate

(* the incomingRequest generateResp is given: the route parameters set *)
RequestSeen(defs, req, m) ==
  Routed(Incoming(req,
                  IF req.reader # "none" THEN extractReqBody(req, req.Header).body
                  ELSE EmptyMap,
                  IF req.reader # "none" THEN ReadAll(req, 1) ELSE ""),
         m, MatchPath(CleanPath(req.Path), defs[m].Path))

(* Resolve up to generateResp: nothing shared is written; a call whose *)
(* response has no template returns here                               *)
ResBegin(c) ==
  /\ calls[c].pc = "idle"
  /\ \E req \in Requests :
       /\ req.reader # "failing"
       /\ calls' = [calls EXCEPT ![c] =
            IF UsesTemplate(definitions, Resolve(definitions, FALSE, req))
            THEN [pc |-> "parse", req |-> req, out |-> Resolve(definitions, FALSE, req)]
            ELSE [pc |-> "done", req |-> req, out |-> Resolve(definitions, FALSE, req)]]
  /\ UNCHANGED <<dir, definitions, isLoaded, escaped, loads, lastLoad, last,
                 pc, idx, snap, stream, probe, templateText>>

(* t := template.Must(r.template.Parse(body)): t is r.template itself, *)
(* which now holds this call's body                                    *)
ResParse(c) ==
  /\ calls[c].pc = "parse"
  /\ IF escaped \/ ~TemplateParses(definitions[calls[c].out.matched]
                                     .Responses[calls[c].out.chosen].Body)
     THEN /\ calls' = [calls EXCEPT ![c].pc = "done", ![c].out.kind = "panic",
                                     ![c].out.resp = NoResponse]
          /\ UNCHANGED templateText
     ELSE /\ calls' = [calls EXCEPT ![c].pc = "execute"]
          /\ templateText' = definitions[calls[c].out.matched]
                          .Responses[calls[c].out.chosen].Body
  /\ UNCHANGED <<dir, definitions, isLoaded, escaped, loads, lastLoad, last,
                 pc, idx, snap, stream, probe>>

(* t.Execute(buf, request.collectAllParams()): executes what r.template *)
(* holds now, and the rest of generateResp                              *)
ResExecute(c) ==
  /\ calls[c].pc = "execute"
  /\ escaped' = TRUE
  /\ calls' = [calls EXCEPT ![c].pc = "done",
                 ![c].out.kind = IF TemplateExecutes(templateText) THEN "resp" ELSE "err",
                 ![c].out.err = IF TemplateExecutes(templateText) THEN Nil ELSE "ErrCommon",
                 ![c].out.resp =
                   IF TemplateExecutes(templateText)
                   THEN HttpResponse(
                          definitions[calls[c].out.matched].Responses[calls[c].out.chosen],
                          Render(templateText,
                                 collectAllParams(RequestSeen(definitions, calls[c].req,
                                                              calls[c].out.matched))))
                   ELSE NoResponse]
  /\ UNCHANGED <<dir, definitions, isLoaded, loads, lastLoad, last,
                 pc, idx, snap, stream, probe, templateText>>

NextRes == \E c \in Callers : ResBegin(c) \/ ResParse(c) \/ ResExecute(c)

SpecRes == InitRes /\ [][NextRes]_vars

(* ------------------ the path functions called alone ------------------ *)

InitPath ==
  /\ dir = [ok |-> FALSE, files |-> <<>>]
  /\ definitions = <<>>
  /\ isLoaded = FALSE
  /\ escaped = FALSE
  /\ loads = 0
  /\ lastLoad = [l \in Loaders |-> "none"]
  /\ last = NoCall
  /\ pc = [l \in Loaders |-> "idle"]
  /\ idx = [l \in Loaders |-> 0]
  /\ snap = [l \in Loaders |-> <<>>]
  /\ stream = NoStream
  /\ probe \in MatchInputs \cup CleanInputs
  /\ calls = NoCalls
  /\ templateText = ""

MatchProbe ==
  /\ probe.op = "match"
  /\ probe' = Probe("MatchPath", probe.pattern, probe.path,
                    CompilePath(probe.pattern).params,
                    MatchPath(probe.path, probe.pattern))
  /\ UNCHANGED <<dir, definitions, isLoaded, escaped, loads, lastLoad, last,
                 pc, idx, snap, stream,
                 calls, templateText>>

CleanProbe ==
  /\ probe.op = "clean"
  /\ probe' = [probe EXCEPT !.op = "CleanPath", !.clean = CleanPathBytes(probe.text)]
  /\ UNCHANGED <<dir, definitions, isLoaded, escaped, loads, lastLoad, last,
                 pc, idx, snap, stream,
                 calls, templateText>>

NextPath == MatchProbe \/ CleanProbe

SpecPath == InitPath /\ [][NextPath]_vars

(* ------------- a reusableReader read again and again ------------------ *)

InitReader ==
  /\ dir = [ok |-> FALSE, files |-> <<>>]
  /\ definitions = <<>>
  /\ isLoaded = FALSE
  /\ escaped = FALSE
  /\ loads = 0
  /\ lastLoad = [l \in Loaders |-> "none"]
  /\ last = NoCall
  /\ pc = [l \in Loaders |-> "idle"]
  /\ idx = [l \in Loaders |-> 0]
  /\ snap = [l \in Loaders |-> <<>>]
  /\ stream \in {Stream(d) : d \in SeqsUpTo(Bytes, MaxData)}
  /\ probe = NoProbe
  /\ calls = NoCalls
  /\ templateText = ""

(* one Read call with a buffer of any size up to MaxBuf *)
Read ==
  /\ stream.fulls < MaxFulls
  /\ \E n \in 0..MaxBuf : stream' = ReaderRead(stream, n)
  /\ UNCHANGED <<dir, definitions, isLoaded, escaped, loads, lastLoad, last,
                 pc, idx, snap, probe,
                 calls, templateText>>

NextReader == Read

SpecReader == InitReader /\ [][NextReader]_vars

(* ------------- LoadDefinition called again after a failure ------------ *)

(* LoadDefinition reads r.dir anew at each call (os.ReadDir, os.ReadFile): *)
(* between two calls the files that could not be read or decoded may have  *)
(* been taken away. The resolver starts on a directory with such a file.   *)
InitReload ==
  InitWith({d \in TierDirectories :
              d.ok /\ \E i \in DOMAIN d.files :
                        d.files[i].kind \in {"unreadable", "badyaml"}})

DirectoryRepaired ==
  /\ \E i \in DOMAIN dir.files : dir.files[i].kind \in {"unreadable", "badyaml"}
  /\ dir' = [dir EXCEPT !.files =
                SelectSeq(dir.files, LAMBDA f : f.kind \in {"dir", "def"})]
  /\ UNCHANGED <<definitions, isLoaded, escaped, loads, lastLoad, last, pc, idx,
                 snap, stream, probe, calls, templateText>>

NextReload == LoadDefinition \/ DirectoryRepaired \/ ResolveCall

SpecReload == InitReload /\ [][NextReload]_vars

(* ================================ claims ============================== *)

(* what the resolver held when the last call was made: r.definitions only *)
(* grows at its end                                                       *)
DefsAt == SubSeq(definitions, 1, last.ndefs)

(* the tier a definition belongs to, by the flags LoadDefinition gave it *)
TierOf(d) ==
  IF ~d.containParams /\ ~d.containsWildcard THEN "exact"
  ELSE IF d.containParams /\ ~d.containsWildcard THEN "param"
  ELSE IF d.containParams /\ d.containsWildcard THEN "wildcard"
  ELSE "none"

Rank(tier) ==
  IF tier = "exact" THEN 1 ELSE IF tier = "param" THEN 2
  ELSE IF tier = "wildcard" THEN 3 ELSE 4

PathMatches(d, req) == MatchPath(CleanPath(req.Path), d.Path).ok

(* the definition is for the request's host and method and its path matches *)
DefinedFor(d, req) ==
  d.Host = req.Host /\ d.Method = req.Method /\ PathMatches(d, req)

(* the definition is one its tier's store offers for the request *)
Eligible(d, req) ==
  /\ d.Method = req.Method
  /\ PathMatches(d, req)
  /\ (d.Host = req.Host \/ TierOf(d) = "param")

(* the definition the last call committed to, and the request as the      *)
(* selection saw it                                                       *)
Matched == DefsAt[last.out.matched]

LastBody ==
  IF last.req.reader # "none"
  THEN extractReqBody(last.req, last.req.Header).body
  ELSE EmptyMap

LastRequest ==
  [Incoming(last.req, LastBody,
            IF last.req.reader # "none" THEN ReadAll(last.req, 1) ELSE "")
     EXCEPT !.RouteParams = MatchPath(CleanPath(last.req.Path), Matched.Path).params]

(* the last call went as far as choosing among the responses of Matched *)
SelectionReached ==
  /\ last.out.matched # 0
  /\ validateTarget(LastRequest) = Nil

EvaluatesTrue(e) == ~e.err /\ e.isBool /\ e.val

EvaluatesBadly(e) == e.err \/ ~e.isBool

(* a rule-bearing response all of whose rules evaluate to true *)
Satisfied(request, response) ==
  /\ Len(response.Rules) > 0
  /\ \A k \in DOMAIN response.Rules :
       EvaluatesTrue(ExprEval(response.Rules[k], request))

FirstSatisfied(i) ==
  /\ Satisfied(LastRequest, Matched.Responses[i])
  /\ \A j \in 1..(i - 1) : ~Satisfied(LastRequest, Matched.Responses[j])

FirstRuleLess(i) ==
  /\ Len(Matched.Responses[i].Rules) = 0
  /\ \A j \in 1..(i - 1) : Len(Matched.Responses[j].Rules) > 0

NoneSatisfied ==
  \A i \in DOMAIN Matched.Responses : ~Satisfied(LastRequest, Matched.Responses[i])

Chosen == Matched.Responses[last.out.chosen]

(* C1: whatever the load order, when definitions of more than one tier    *)
(* match a request, Resolve uses an Exact-tier definition in preference   *)
(* to a Parameter-tier or Wildcard-tier one, and a Parameter-tier one in  *)
(* preference to a Wildcard-tier one: the definition it commits to        *)
(* matches the request and no matching definition is of an earlier tier;  *)
(* it reports "not found" from the lookup only when none matches.         *)
C1_TierPrecedence ==
  /\ last.out.matched # 0 =>
       /\ Eligible(Matched, last.req)
       /\ \A i \in 1..last.ndefs :
            Eligible(DefsAt[i], last.req)
              => Rank(TierOf(Matched)) <= Rank(TierOf(DefsAt[i]))
  /\ (last.out.kind = "err" /\ last.out.err = "ErrNoMockResponse"
        /\ last.out.matched = 0) =>
       \A i \in 1..last.ndefs : ~Eligible(DefsAt[i], last.req)

(* an Exact-tier definition was used although a matching definition of a *)
(* later tier had been loaded before it                                   *)
C1_Witness ==
  /\ last.out.matched # 0
  /\ TierOf(Matched) = "exact"
  /\ \E i \in 1..(last.out.matched - 1) :
       Eligible(DefsAt[i], last.req) /\ TierOf(DefsAt[i]) # "exact"

(* C2: Client.Do calls the real upstream if and only if Resolve returned *)
(* no response. When Resolve returns a response, Do returns that response *)
(* and makes no upstream call; when Resolve returns no response, whatever *)
(* error it returned, Do makes the upstream call and returns its result.  *)
C2_UpstreamIffNoMock ==
  last.op = "Do" =>
    /\ last.upstream <=> (last.out.kind = "err")
    /\ last.out.kind = "resp" => (last.ret = "mock" /\ last.resp = last.out.resp)
    /\ last.out.kind = "err" =>
         /\ last.ret \in {"upstream", "upstreamErr"}
         /\ last.ret = "upstream" => last.resp = UpstreamResponse

(* Resolve failed with an error other than "not found" and Do went upstream *)
C2_Witness ==
  /\ last.op = "Do"
  /\ last.out.kind = "err"
  /\ last.out.err \notin {"ErrNoMockResponse", "ErrNotFound"}
  /\ last.upstream
  /\ last.ret = "upstream"

(* C3: within the matched definition, Resolve selects the first response  *)
(* in declaration order whose rule list is non-empty and all of whose     *)
(* rules evaluate to true; a rule-less response declared earlier never    *)
(* takes precedence over it.                                              *)
C3_FirstSatisfiedSelected ==
  SelectionReached =>
    \A i \in DOMAIN Matched.Responses :
      FirstSatisfied(i) => last.out.chosen = i

(* C4: when no rule-bearing response of the matched definition is         *)
(* satisfied, Resolve selects the first rule-less response in declaration *)
(* order, whatever its status code, body and headers; NoMockResponse is   *)
(* signalled only when the definition has neither a rule-less response    *)
(* nor a satisfied rule-bearing one.                                      *)
C4_FirstDefaultSelected ==
  SelectionReached =>
    /\ NoneSatisfied =>
         \A i \in DOMAIN Matched.Responses :
           FirstRuleLess(i) => last.out.chosen = i
    /\ (last.out.kind = "err" /\ last.out.err = "ErrNoMockResponse") =>
         /\ NoneSatisfied
         /\ \A i \in DOMAIN Matched.Responses : Len(Matched.Responses[i].Rules) > 0

(* C5: once a load call has succeeded, every later load call fails with   *)
(* ErrDefinitionLoaded and the definition list stays exactly as it was    *)
(* after the successful call.                                             *)
C5_LaterLoadsRejected ==
  [][isLoaded =>
       /\ isLoaded'
       /\ definitions' = definitions
       /\ loads' # loads => lastLoad'[1] = "ErrDefinitionLoaded"]_vars

(* a load call was rejected on a resolver that holds loaded definitions *)
C5_Witness ==
  /\ isLoaded
  /\ loads > 1
  /\ lastLoad[1] = "ErrDefinitionLoaded"
  /\ definitions # <<>>

(* every entry of the directory can be loaded, so that a call running *)
(* alone succeeds                                                     *)
AllLoadable == dir.ok /\ \A i \in DOMAIN dir.files : dir.files[i].kind \in {"dir", "def"}

(* C6: under any interleaving of load calls issued concurrently on one    *)
(* resolver, the index is built exactly once: at most one call appends    *)
(* definitions and no definition file is appended more than once.         *)
C6_IndexBuiltOnce ==
  AllLoadable =>
    /\ \A l, m \in Loaders : (pc[l] = "append" /\ pc[m] = "append") => l = m
    /\ \A i, j \in DOMAIN definitions : definitions[i] = definitions[j] => i = j

(* C7: if no loaded definition has the request's host and method with a   *)
(* path pattern matching the request path, Client.Do does not return a    *)
(* mock response and forwards the request to the real upstream. (A Do     *)
(* that could not read the request's body answers before any of this.)    *)
C7_UndefinedGoesUpstream ==
  (/\ last.op = "Do"
   /\ last.ret # "readErr"
   /\ \A i \in 1..last.ndefs : ~DefinedFor(DefsAt[i], last.req)) =>
    /\ last.ret # "mock"
    /\ last.upstream

(* C8: for every rule string, isRuleFulfilled returns false when the      *)
(* expression fails to parse, refers to a missing name or yields a value  *)
(* that is no boolean, and no rule's outcome makes Resolve panic.         *)
C8_BadRuleIsFalse ==
  SelectionReached =>
    /\ \A j \in DOMAIN Matched.Responses :
         \A k \in DOMAIN Matched.Responses[j].Rules :
           EvaluatesBadly(ExprEval(Matched.Responses[j].Rules[k], LastRequest))
             => isRuleFulfilled(LastRequest, Matched.Responses[j].Rules[k]) = "false"
    /\ ~(last.out.kind = "panic" /\ last.out.chosen = 0)

(* C9: when the selected response has templating enabled and its body     *)
(* cannot be parsed or executed as a template, Resolve returns the        *)
(* synthesis error and no response; it does not panic.                    *)
C9_TemplateFailureIsError ==
  (/\ last.out.chosen # 0
   /\ Chosen.EnableTemplate
   /\ (~TemplateParses(Chosen.Body) \/ ~TemplateExecutes(Chosen.Body))) =>
    /\ last.out.kind = "err"
    /\ last.out.err = "ErrCommon"

(* C10: on a resolver whose definitions are loaded, every call that       *)
(* selects a template-enabled response returns a body rendered from that  *)
(* response's template with that call's own parameters: the n-th such     *)
(* call answers exactly as it would as the first call on a fresh          *)
(* resolver.                                                              *)
C10_RendersAsOnFreshResolver ==
  (/\ last.loaded
   /\ last.out.chosen # 0
   /\ Chosen.EnableTemplate) =>
    /\ last.out.kind = Resolve(DefsAt, FALSE, last.req).kind
    /\ last.out.err = Resolve(DefsAt, FALSE, last.req).err
    /\ last.out.resp = Resolve(DefsAt, FALSE, last.req).resp
    /\ (TemplateParses(Chosen.Body) /\ TemplateExecutes(Chosen.Body)) =>
         /\ last.out.kind = "resp"
         /\ last.out.resp.Body = Render(Chosen.Body, collectAllParams(LastRequest))

(* the last call ran Resolve on a request of a method that changes state *)
(* and that carries no Content-Type header                              *)
MutatingNoContentType ==
  /\ last.out.kind # "none"
  /\ last.req.Method \in {"POST", "PUT", "PATCH", "DELETE"}
  /\ "Content-Type" \notin DOMAIN last.req.Header

C12_FullReadYieldsData ==
  /\ stream.fulls > 0 => stream.full = stream.data
  /\ stream.acc \o stream.readBuf = stream.data
  /\ stream.backBuf = stream.acc

(* a second full read has ended, after Read calls that returned the data *)
(* in pieces                                                             *)
C12_Witness ==
  /\ stream.fulls >= 2
  /\ Len(stream.data) > MaxBuf
  /\ stream.full = stream.data

(* C13: for every Client.Do call on a request with a non-empty body that  *)
(* ends in pass-through after Resolve has read the body, the body stream  *)
(* handed to the upstream call yields the complete original request       *)
(* bytes, for requests wrapped by FromRequest and for requests built by   *)
(* NewRequest alike.                                                      *)
C13_UpstreamGetsWholeBody ==
  (/\ last.op = "Do"
   /\ last.upstream
   /\ last.req.reader # "none"
   /\ last.req.data # "") =>
    last.sent = last.req.data

(* the pattern of the last MatchPath call is made of literal elements and *)
(* :name elements only, with at least one :name                           *)
NamedOnly ==
  /\ probe.op = "MatchPath"
  /\ \E i \in DOMAIN probe.pattern : IsParam(probe.pattern[i])
  /\ \A i \in DOMAIN probe.pattern : probe.pattern[i] \notin {"*", "*filepath"}

(* the segments of the path: a path may end in slashes *)
Segments == StripSlashes(probe.path)

(* the path has as many segments as the pattern, equal at the literal *)
(* positions and non-empty at the :name positions                     *)
LinesUp ==
  /\ Len(Segments) = Len(probe.pattern)
  /\ \A i \in DOMAIN probe.pattern :
       IF IsParam(probe.pattern[i]) THEN Segments[i] # ""
       ELSE Segments[i] = probe.pattern[i]

Declares(i, name) ==
  IsParam(probe.pattern[i]) /\ ParamNameOf[probe.pattern[i]] = name

(* C14: for a pattern with named parameters and no wildcard, MatchPath on *)
(* a path whose segments line up with it reports a match and returns a    *)
(* map with exactly one entry per declared name, whose value is the       *)
(* segment at the position that declares the name; a path with another    *)
(* number of segments or a differing literal segment does not match.      *)
C14_NamedParamsCaptured ==
  NamedOnly =>
    IF LinesUp
    THEN /\ probe.ok
         /\ DOMAIN probe.params =
              {ParamNameOf[probe.pattern[i]] :
                 i \in {j \in DOMAIN probe.pattern : IsParam(probe.pattern[j])}}
         /\ \A name \in DOMAIN probe.params :
              /\ \E i \in DOMAIN probe.pattern :
                   Declares(i, name) /\ probe.params[name] = Segments[i]
              /\ \A i \in DOMAIN probe.pattern :
                   (/\ Declares(i, name)
                    /\ \A j \in DOMAIN probe.pattern : Declares(j, name) => j = i)
                     => probe.params[name] = Segments[i]
    ELSE ~probe.ok

(* a path matched a pattern with two different names and a literal *)
C14_Witness ==
  /\ NamedOnly
  /\ LinesUp
  /\ probe.ok
  /\ Len(probe.pattern) = 3
  /\ DOMAIN probe.params = {"tool", "id"}

(* the pattern of the last MatchPath call ends in the element *filepath *)
NamedWildcardLast ==
  /\ probe.op = "MatchPath"
  /\ probe.pattern # <<>>
  /\ Last(probe.pattern) = "*filepath"

(* the path starts with segments that line up with the pattern's elements *)
(* before the last one, and goes on with at least one more segment        *)
ExtendsPrefix ==
  /\ Len(Segments) >= Len(probe.pattern)
  /\ \A i \in 1..(Len(probe.pattern) - 1) :
       IF IsParam(probe.pattern[i]) THEN Segments[i] # ""
       ELSE Segments[i] = probe.pattern[i]

(* C15, as stated: a template whose final segment is *name is compiled as *)
(* a wildcard: it matches every path that extends its prefix and the name *)
(* of the wildcard is the last of the parameter names.                    *)
C15_NamedWildcardCaptures ==
  (NamedWildcardLast /\ ExtendsPrefix) =>
    /\ probe.ok
    /\ probe.names # <<>>
    /\ Last(probe.names) \in {"*", "filepath"}
    /\ Last(probe.names) \in DOMAIN probe.params

(* C15, amended: a template whose final segment is *name is compiled as a *)
(* literal path: it matches exactly the paths whose segments line up with *)
(* it, the last one being the text *name itself, and its parameter names  *)
(* are those of the :name elements before it, with no wildcard name.      *)
C15_NamedWildcardIsLiteral ==
  NamedWildcardLast =>
    /\ probe.ok <=> LinesUp
    /\ probe.names = ParamNames(SelectSeq(probe.pattern, IsParam))
    /\ \A i \in DOMAIN probe.names : probe.names[i] \notin {"*", "filepath"}
    /\ probe.ok =>
         DOMAIN probe.params = {probe.names[i] : i \in DOMAIN probe.names}

(* /src/*filepath was tried on a path that extends /src by a segment *)
C15_Witness ==
  /\ NamedWildcardLast
  /\ ExtendsPrefix
  /\ Len(probe.pattern) = 2
  /\ ~IsParam(probe.pattern[1])
  /\ Segments[2] = "test"
  /\ ~probe.ok

(* the pattern of the last MatchPath call ends in a bare * *)
BareStarLast ==
  /\ probe.op = "MatchPath"
  /\ probe.pattern # <<>>
  /\ Last(probe.pattern) = "*"

(* what the path holds after the separator that follows the prefix *)
RestOfPath ==
  Join(SubSeq(probe.path, Len(probe.pattern), Len(probe.path)))

(* C16: for a template ending in a bare /* with zero or more :name        *)
(* parameters before it, a path that extends the template's prefix by     *)
(* /rest, rest non-empty, matches; the parameters map every declared name *)
(* to its segment and the key * to rest without the leading separator; *  *)
(* is the last of the compiled parameter names.                           *)
C16_BareWildcardCaptures ==
  BareStarLast =>
    /\ probe.names # <<>>
    /\ Last(probe.names) = "*"
    /\ ExtendsPrefix =>
         /\ probe.ok
         /\ DOMAIN probe.params = {probe.names[i] : i \in DOMAIN probe.names}
         /\ probe.params["*"] = RestOfPath
         /\ \A name \in DOMAIN probe.params \ {"*"} :
              /\ \E i \in DOMAIN probe.pattern :
                   Declares(i, name) /\ probe.params[name] = probe.path[i]
              /\ \A i \in DOMAIN probe.pattern :
                   (/\ Declares(i, name)
                    /\ \A j \in DOMAIN probe.pattern : Declares(j, name) => j = i)
                     => probe.params[name] = probe.path[i]

(* /:tool/* matched a path of three segments *)
C16_Witness ==
  /\ BareStarLast
  /\ ExtendsPrefix
  /\ probe.ok
  /\ probe.names = <<"tool", "*">>
  /\ probe.params["tool"] = "cmd"
  /\ probe.params["*"] = "test/cmd"

(* the value the key k has in the first of the route parameters, the *)
(* headers, the cookies and the query parameters that holds it       *)
ByPrecedence(k) ==
  IF k \in DOMAIN LastRequest.RouteParams THEN LastRequest.RouteParams[k]
  ELSE IF k \in DOMAIN LastRequest.Headers THEN LastRequest.Headers[k]
  ELSE IF k \in DOMAIN LastRequest.Cookies THEN LastRequest.Cookies[k]
  ELSE IF k \in DOMAIN LastRequest.QueryParams THEN LastRequest.QueryParams[k]
  ELSE ""

(* the last call rendered the template that prints the keys id, x, y, z *)
KeysRendered ==
  /\ SelectionReached
  /\ last.out.kind = "resp"
  /\ last.out.chosen # 0
  /\ Chosen.EnableTemplate
  /\ Chosen.Body = TmplKeys

(* C17: the parameter map supplied to a response template contains every *)
(* key of the request's query parameters, cookies, headers and route     *)
(* parameters, and a key present in several of them has the route        *)
(* parameter's value if present, else the header's, else the cookie's,   *)
(* else the query parameter's.                                           *)
C17_ParamsMergedByPrecedence ==
  KeysRendered =>
    /\ last.out.resp.Body =
         ByPrecedence("id") \o "," \o ByPrecedence("x") \o ","
           \o ByPrecedence("y") \o "," \o ByPrecedence("z")
    /\ DOMAIN collectAllParams(LastRequest) =
         DOMAIN LastRequest.RouteParams \cup DOMAIN LastRequest.Headers
           \cup DOMAIN LastRequest.Cookies \cup DOMAIN LastRequest.QueryParams

(* one key came from each of the four maps *)
C17_Witness ==
  /\ KeysRendered
  /\ last.out.resp.Body = "a,h,c,q"

(* the byte at i starts a segment of t that is "." or ".." *)
DotSegmentAt(t, i) ==
  /\ t[i] = "."
  /\ i = 1 \/ t[i - 1] = "/"
  /\ \/ i = Len(t)
     \/ t[i + 1] = "/"
     \/ /\ t[i + 1] = "."
        /\ i + 1 = Len(t) \/ t[i + 2] = "/"

(* C18: CleanPath is idempotent, CleanPath(CleanPath(p)) = CleanPath(p)  *)
(* for every text p, and its result begins with "/" and has no empty     *)
(* segment (no two slashes in a row), no "." and no ".." segment.        *)
C18_CleanPathIdempotent ==
  probe.op = "CleanPath" =>
    /\ CleanPathBytes(probe.clean) = probe.clean
    /\ probe.clean # <<>>
    /\ probe.clean[1] = "/"
    /\ \A i \in 1..(Len(probe.clean) - 1) :
         ~(probe.clean[i] = "/" /\ probe.clean[i + 1] = "/")
    /\ \A i \in DOMAIN probe.clean : ~DotSegmentAt(probe.clean, i)

(* a text with a ".." segment, no leading slash and a trailing slash *)
(* was cleaned to "/a/"                                              *)
C18_Witness ==
  /\ probe.op = "CleanPath"
  /\ probe.text = <<".", ".", "/", "a", "/">>
  /\ probe.clean = <<"/", "a", "/">>

(* the last call of Resolve returned, and had got as far as the lookup: *)
(* the request had no body or a body that could be parsed               *)
LookupReached ==
  /\ last.out.kind \in {"resp", "err"}
  /\ last.req.reader # "none" => extractReqBody(last.req, last.req.Header).err = Nil

(* no definition the resolver held is for the request's host, method and path *)
NoDefinitionMatches ==
  \A i \in 1..last.ndefs : ~DefinedFor(DefsAt[i], last.req)

(* no tier's store offered a definition that matches the request *)
NoneEligible ==
  \A i \in 1..last.ndefs : ~Eligible(DefsAt[i], last.req)

(* a definition matched and none of its responses qualified: each has *)
(* rules and none has all its rules satisfied                         *)
NoneQualified ==
  /\ SelectionReached
  /\ NoneSatisfied
  /\ \A i \in DOMAIN Matched.Responses : Len(Matched.Responses[i].Rules) > 0

DelayedHit ==
  /\ SelectionReached
  /\ last.out.kind = "resp"
  /\ last.out.chosen # 0
  /\ Chosen.Delay # 0

(* C20: on a mock hit, the delay configured on the chosen response is    *)
(* made available to the caller of Resolve as part of the result (and    *)
(* nothing in Resolve waits for it): the result tells the delay, so it   *)
(* is not the result Resolve gives for the same response with no delay.  *)
C20_DelayExposed ==
  DelayedHit =>
    last.out.resp # HttpResponse([Chosen EXCEPT !.Delay = 0], last.out.resp.Body)

(* the tiers whose store offers the i-th definition for its own host and *)
(* method                                                                *)
TiersAccepting(i) ==
  {t \in {"exact", "param", "wildcard"} :
     \E k \in DOMAIN Store(t, definitions, definitions[i].Host, definitions[i].Method) :
       Store(t, definitions, definitions[i].Host, definitions[i].Method)[k] = i}

(* C21: after a successful load every definition of the index is accepted *)
(* by exactly one of the three tier filters for its own host and method:  *)
(* containsWildcard implies containParams, so none falls outside all      *)
(* tiers or into two of them.                                             *)
C21_ExactlyOneTier ==
  isLoaded =>
    \A i \in DOMAIN definitions :
      /\ definitions[i].containsWildcard => definitions[i].containParams
      /\ Cardinality(TiersAccepting(i)) = 1
      /\ TiersAccepting(i) = {TierOf(definitions[i])}

(* a wildcard definition and a parameter definition were loaded *)
C21_Witness ==
  /\ isLoaded
  /\ \E i \in DOMAIN definitions : TiersAccepting(i) = {"wildcard"}
  /\ \E i \in DOMAIN definitions : TiersAccepting(i) = {"param"}

(* the last call of Resolve went as far as the lookup, whatever came after *)
LookupDone ==
  /\ last.out.kind # "none"
  /\ last.req.reader # "none" => extractReqBody(last.req, last.req.Header).err = Nil

(* the definitions of a tier with the request's method and a matching *)
(* path, whatever their host                                          *)
CandidatesIn(tier) ==
  {i \in 1..last.ndefs :
     /\ TierOf(DefsAt[i]) = tier
     /\ DefsAt[i].Method = last.req.Method
     /\ PathMatches(DefsAt[i], last.req)}

AloneResult(c) == Resolve(definitions, FALSE, calls[c].req)

(* C23: under any interleaving of concurrent Resolve calls on one loaded *)
(* resolver each call returns the result it would return when run alone; *)
(* in particular a call that selects a template-enabled response renders *)
(* its own response body, never the template text of another call in     *)
(* flight.                                                               *)
C23_ConcurrentResolveAsAlone ==
  \A c \in Callers :
    calls[c].pc = "done" =>
      /\ calls[c].out.kind = AloneResult(c).kind
      /\ calls[c].out.err = AloneResult(c).err
      /\ calls[c].out.resp = AloneResult(c).resp

(* C24: every Resolve call, whether it ends in a response or in an error, *)
(* leaves the resolver's loaded definitions (their order, fields,         *)
(* responses and derived flags) and its loaded flag unchanged: only a     *)
(* load call (which counts in loads) changes them.                        *)
C24_ResolveLeavesIndex ==
  [][loads' = loads => (definitions' = definitions /\ isLoaded' = isLoaded)]_vars

(* a Resolve call on a loaded index of two definitions ended in an error *)
C24_Witness ==
  /\ last.op = "Resolve"
  /\ last.out.kind = "err"
  /\ isLoaded
  /\ last.ndefs = 2
  /\ Len(definitions) = 2

(* the i-th directory entry is a file that cannot be read or decoded *)
FailsAt(i) == dir.files[i].kind \in {"unreadable", "badyaml"}

(* the definitions of the files before the first one that fails *)
BeforeFailure ==
  LET i == CHOOSE k \in DOMAIN dir.files : FailsAt(k) /\ \A j \in 1..(k - 1) : ~FailsAt(j)
      before == SelectSeq(SubSeq(dir.files, 1, i - 1), LAMBDA f : f.kind = "def")
  IN  [j \in DOMAIN before |-> Compiled(before[j].def)]

(* C25: a load call that fails while reading or decoding the i-th file   *)
(* returns that error with the loaded flag still false and has appended  *)
(* to the index exactly the definitions of the files before the failing  *)
(* one (on a fresh resolver the index then holds exactly those); Resolve *)
(* calls made on the unflagged resolver match against that partial index. *)
C25_PartialUnflaggedIndex ==
  /\ [][(/\ loads' # loads
         /\ ~isLoaded
         /\ dir.ok
         /\ \E i \in DOMAIN dir.files : FailsAt(i))
          => /\ lastLoad'[1] \in {"ErrReadFile", "ErrYaml"}
             /\ ~isLoaded'
             /\ definitions' = definitions \o BeforeFailure]_vars
  /\ []((LookupDone /\ ~last.loaded) =>
          (last.out.matched # 0 <=>
             \E i \in 1..last.ndefs : Eligible(DefsAt[i], last.req)))

(* after a load that failed at its second file, a Resolve call matched *)
(* the definition of the first                                         *)
C25_Witness ==
  /\ ~isLoaded
  /\ lastLoad[1] \in {"ErrReadFile", "ErrYaml"}
  /\ Len(definitions) >= 1
  /\ ~last.loaded
  /\ last.ndefs >= 1
  /\ last.out.matched # 0

(* the pattern of the last MatchPath call has a "*" marker in an element *)
(* that is not its last                                                  *)
StarBeforeEnd ==
  /\ probe.op = "MatchPath"
  /\ \E i \in 1..(Len(probe.pattern) - 1) : probe.pattern[i] \in {"*", "*filepath"}

(* the first n elements of the path line up with those of the pattern, *)
(* every element that is no :name taken literally                      *)
LiteralPrefix(path, n) ==
  /\ Len(path) >= n
  /\ \A i \in 1..n :
       IF IsParam(probe.pattern[i]) THEN path[i] # ""
       ELSE path[i] = probe.pattern[i]

(* C26, as stated: a template with a wildcard marker * anywhere other  *)
(* than in its final segment is rejected when compiled: no matcher is  *)
(* produced for it, so it gives no parameter names and matches no path. *)
C26_MidWildcardRejected ==
  StarBeforeEnd => (~probe.ok /\ probe.names = <<>>)

(* C26, amended: a template with a * anywhere other than in its final   *)
(* segment is compiled without error; the * is literal text there: the  *)
(* template matches the paths that line up with it, such an element     *)
(* equal to the path's, and gives the names of its :name elements       *)
(* (followed by "*" only when its final segment is a bare "*").         *)
C26_MidWildcardIsLiteral ==
  StarBeforeEnd =>
    /\ probe.ok <=>
         IF Last(probe.pattern) = "*"
         THEN LiteralPrefix(probe.path, Len(probe.pattern) - 1)
         ELSE /\ Len(Segments) = Len(probe.pattern)
              /\ LiteralPrefix(Segments, Len(probe.pattern))
    /\ probe.names =
         IF Last(probe.pattern) = "*"
         THEN Append(ParamNames(SelectSeq(probe.pattern, IsParam)), "*")
         ELSE ParamNames(SelectSeq(probe.pattern, IsParam))

(* /*/:id matched the path /*/cmd and no other kind of path *)
C26_Witness ==
  /\ StarBeforeEnd
  /\ probe.pattern = <<"*", ":id">>
  /\ probe.path = <<"*", "cmd">>
  /\ probe.ok
  /\ probe.names = <<"id">>

(* the last call ran Resolve on the request *)
ResolveRan ==
  /\ last.op \in {"Resolve", "Do"}
  /\ last.req.reader # "failing"

(* what Resolve selects for the last request on a resolver holding the   *)
(* same definitions in the same order, whether or not that resolver has  *)
(* answered a call before                                                *)
SelectionOn(esc) == Resolve(DefsAt, esc, last.req)

LookedUpBefore(i, j) ==
  \/ Rank(TierOf(DefsAt[i])) < Rank(TierOf(DefsAt[j]))
  \/ (Rank(TierOf(DefsAt[i])) = Rank(TierOf(DefsAt[j])) /\ i < j)

(* definition i is the first, in that order, that a store offers for the *)
(* last request and whose path matches                                   *)
FirstEligible(i) ==
  /\ Eligible(DefsAt[i], last.req)
  /\ \A j \in 1..last.ndefs :
       (j # i /\ Eligible(DefsAt[j], last.req)) => LookedUpBefore(i, j)

(* a later definition, of the same tier or of a lower one, matches too *)
LaterEligible(i) ==
  \E j \in 1..last.ndefs : j # i /\ Eligible(DefsAt[j], last.req)

(* the definition committed to has no response whose rules are all *)
(* satisfied and no rule-less response that can be used            *)
YieldsNoResponse ==
  /\ NoneSatisfied
  /\ \A k \in DOMAIN Matched.Responses :
       Len(Matched.Responses[k].Rules) = 0 => isNil(Matched.Responses[k])

(* C28: Resolve commits to the first definition whose path matches, in   *)
(* tier order and then load order: when that definition fails the        *)
(* content-type validation, or yields no response (no response with all  *)
(* its rules satisfied and no usable default), Resolve ends with that    *)
(* error, whether or not a later definition of the same tier or of a     *)
(* lower tier matches the request too.                                   *)
C28_CommitsToFirstMatch ==
  LookupDone =>
    \A i \in 1..last.ndefs :
      FirstEligible(i) =>
        /\ last.out.matched = i
        /\ validateTarget(LastRequest) # Nil =>
             /\ last.out.kind = "err"
             /\ last.out.err = validateTarget(LastRequest)
             /\ last.out.chosen = 0
        /\ (validateTarget(LastRequest) = Nil /\ YieldsNoResponse) =>
             /\ last.out.kind = "err"
             /\ last.out.err = "ErrNoMockResponse"
             /\ last.out.chosen = 0

(* the last call ran Resolve on a request with a non-empty body declared *)
(* as JSON or XML                                                        *)
StructuredBody ==
  /\ ResolveRan
  /\ last.req.reader # "none"
  /\ last.req.data # ""
  /\ Get(last.req.Header, "Content-Type")
       \in parsedJSONBodyMimeTypes \cup parsedXMLBodyMimeTypes

(* what the first read of the body (extractRawBody in Resolve) and the *)
(* second (extractRawBody in extractReqBody) returned                  *)
RawText == ReadAll(last.req, 1)

DecoderText == ReadAll(last.req, 2)

(* C29: within one Resolve call on a request with a non-empty JSON or   *)
(* XML body, the raw body text placed in the rule context and the text  *)
(* handed to the structured decoder are both the complete original      *)
(* body, for a request wrapped by FromRequest and for one built by      *)
(* NewRequest or Client.Post alike: the second read of the body never   *)
(* sees an exhausted stream, so the decoder is given what it would be   *)
(* given on the first read.                                             *)
C29_BothReadsSeeWholeBody ==
  StructuredBody =>
    /\ RawText = last.req.data
    /\ DecoderText = last.req.data
    /\ extractReqBody(last.req, last.req.Header) =
         (IF Get(last.req.Header, "Content-Type") \in parsedJSONBodyMimeTypes
          THEN ParseJSON(last.req.data) ELSE ParseXML(last.req.data))

(* the definitions of the files the directory holds, each once, in the *)
(* order of the listing                                                *)
EachFileOnce == LoadFiles(<<>>, dir.files, 1).defs

(* C30: when a load call that failed partway is followed on the same    *)
(* resolver by a load call that succeeds, the index after the           *)
(* successful call holds each definition file exactly once: what the    *)
(* failed attempt appended is not in it a second time. (The index does  *)
(* not change once a load has succeeded.)                               *)
C30_ReloadHoldsEachFileOnce ==
  isLoaded => definitions = EachFileOnce

====
